---- MODULE Spec2Model ----
(***************************************************************************)
(* The person_course assembly pipeline of edx2bigquery                     *)
(* (make_person_course.py): the PersonCourse orchestrator, its four        *)
(* phases, the dual-format output and the upload, run against a remote     *)
(* dataset of materialized aggregate tables; and the command line          *)
(* (main.py) that runs it, and the setup_sql steps, over a list of courses.*)
(***************************************************************************)
EXTENDS Integers, Sequences, FiniteSets, TLC

VARIABLES
    seed,       \* lines of user_info_combo.json.gz, one row per line
    struct,     \* course structure document: categories of its entries
    source,     \* what each aggregate query computes when it is executed
    bq,         \* materialized pc_* tables of the course dataset: name -> rows by key
    daily,      \* table ids present in the <dataset>_logs dataset
    opts,       \* arguments of make_person_course: force, mode, start, end
    pctab,      \* self.pctab: ordered entries [key, ent]
    agg,        \* self.pc_nchapters, self.pc_forum, ...: name -> data_by_key
    nchapters,  \* self.nchapters: <<>> until computed, then <<n>>
    pc,         \* position: [m |-> index of the method called, s |-> step in it]
    err,        \* "" or the exception that ended the run
    calls,      \* methods of the entry point started so far, in order
    completed,  \* methods of the entry point that returned, in order
    loads,      \* aggregate loads of this run: [name, existed, force, queried]
    entry,      \* self.pctab as it was when the current method was entered
    files,      \* course directory: file name -> lines written
    gs,         \* artifacts copied to object storage, in order
    table,      \* remote person_course table: <<>> or <<rows>>
    description,\* provenance notes of the person_course table, oldest first
    run,        \* number of the current make_person_course invocation
    prev,       \* outcome of the previous invocation: mode, force, files
    args,       \* parsed command line: command, courses, start_date, end_date, ...
    cmd,        \* position of the command: course i, step k, inner course j
    processed,  \* [course, step] of every per-course step started, in order
    printed,    \* [course, step, err] of every error printed, in order
    outcome     \* "" while the command runs, then "returned" or "raised"

vars == <<seed, struct, source, bq, daily, opts, pctab, agg, nchapters, pc, err,
          calls, completed, loads, entry, files, gs, table, description, run, prev,
          args, cmd, processed, printed, outcome>>

-----------------------------------------------------------------------------
(* Bounds of the model *)

MaxRows == 2
MaxChapters == 10
MaxRuns == 2
MaxCourses == 2

-----------------------------------------------------------------------------
(* Python values.  A dict is a function on the set of its keys; a scalar is  *)
(* its type together with its text, so that 6, "6" and u"6" are three       *)
(* values and str(), int() and encode() convert between them.               *)

Has(d, k) == k \in DOMAIN d

Put(d, k, v) == [x \in DOMAIN d \cup {k} |-> IF x = k THEN v ELSE d[x]]

Restrict(d, ks) == [x \in DOMAIN d \cap ks |-> d[x]]

EmptyDict == <<>>

Digit == <<"1", "2", "3", "4", "5", "6", "7", "8", "9">>

RECURSIVE str(_)
\* str(n) of a non-negative integer: its decimal digits
str(n) ==
    IF n = 0 THEN "0"
    ELSE IF n < 10 THEN Digit[n]
    ELSE str(n \div 10) \o (IF n % 10 = 0 THEN "0" ELSE Digit[n % 10])

MaxInt == MaxChapters + 1

\* int(s) of a decimal string
int(s) == CHOOSE n \in 0..MaxInt : str(n) = s

IsDecimal(s) == \E n \in 0..MaxInt : str(n) = s

PyInt(n) == [py |-> "int", s |-> str(n)]

PyStr(s) == [py |-> "str", s |-> s]

PyUnicode(s) == [py |-> "unicode", s |-> s]

PyBool(b) == [py |-> "bool", s |-> IF b THEN "True" ELSE "False"]

True == PyBool(TRUE)

False == PyBool(FALSE)

\* the text of str(v), which is also the dict key v looks up
py_str(v) == v.s

\* unicode.encode('utf8'): a byte string of the same text
encode_utf8(v) == IF v.py = "unicode" THEN PyStr(v.s) ELSE v

-----------------------------------------------------------------------------
(* copy_fields: fields maps a destination key to the candidate source keys *)

RECURSIVE FirstPresent(_, _)
\* the first candidate present in src, as <<candidate>>; <<>> when none is
FirstPresent(src, cands) ==
    IF cands = <<>> THEN <<>>
    ELSE IF Has(src, Head(cands)) THEN <<Head(cands)>>
    ELSE FirstPresent(src, Tail(cands))

RECURSIVE copy_fields(_, _, _)
copy_fields(src, dst, fields) ==
    IF fields = <<>> THEN dst
    ELSE LET key == Head(fields)[1]
             hit == FirstPresent(src, Head(fields)[2])
             dst1 == IF hit = <<>> THEN dst ELSE Put(dst, key, src[hit[1]])
         IN  copy_fields(src, dst1, Tail(fields))

\* as first_phase_fields, with the candidates of course_id the other way round
first_phase_fields_certificate_first ==
    << <<"course_id", <<"certificate_course_id", "enrollment_course_id">> >>,
       <<"user_id", <<"user_id">> >>,
       <<"username", <<"username">> >>,
       <<"gender", <<"profile_gender">> >>,
       <<"LoE", <<"profile_level_of_education">> >>,
       <<"YoB", <<"profile_year_of_birth">> >>,
       <<"grade", <<"certificate_grade">> >>,
       <<"start_time", <<"enrollment_created">> >>,
       <<"mode", <<"enrollment_mode">> >> >>

first_phase_fields ==
    << <<"course_id", <<"enrollment_course_id", "certificate_course_id">> >>,
       <<"user_id", <<"user_id">> >>,
       <<"username", <<"username">> >>,
       <<"gender", <<"profile_gender">> >>,
       <<"LoE", <<"profile_level_of_education">> >>,
       <<"YoB", <<"profile_year_of_birth">> >>,
       <<"grade", <<"certificate_grade">> >>,
       <<"start_time", <<"enrollment_created">> >>,
       <<"mode", <<"enrollment_mode">> >> >>

-----------------------------------------------------------------------------
(* Ordered dictionaries: a sequence of [key, ent], at most one per key *)

Keys(od) == [i \in 1..Len(od) |-> od[i].key]

KeySet(od) == {od[i].key : i \in 1..Len(od)}

IndexOf(od, k) == CHOOSE i \in 1..Len(od) : od[i].key = k

\* od[k] = v: an existing key keeps its place, a new key goes last
OdSet(od, k, v) ==
    IF k \in KeySet(od)
    THEN [od EXCEPT ![IndexOf(od, k)] = [key |-> k, ent |-> v]]
    ELSE Append(od, [key |-> k, ent |-> v])

RECURSIVE load_json(_, _)
\* rows that lack the key are reported and left out
load_json(lines, key) ==
    IF lines = <<>> THEN <<>>
    ELSE LET jd == lines[Len(lines)]
             data == load_json(SubSeq(lines, 1, Len(lines) - 1), key)
         IN  IF Has(jd, key) THEN OdSet(data, jd[key].s, jd) ELSE data

-----------------------------------------------------------------------------
(* Phase 1 *)

certified_downloadable_only == {"downloadable"}

certified_statuses == {"downloadable", "unavailable"}

certificate_status_of(uicent) ==
    IF Has(uicent, "certificate_status") THEN uicent["certificate_status"].s ELSE ""

\* as first_phase_entry, without the else branch that sets certified to False
first_phase_entry_no_else(uicent) ==
    LET pcent == Put(copy_fields(uicent, EmptyDict, first_phase_fields),
                     "registered", True)
    IN  IF certificate_status_of(uicent) \in certified_statuses
        THEN Put(pcent, "certified", True) ELSE pcent

first_phase_entry(uicent) ==
    LET pcent == Put(copy_fields(uicent, EmptyDict, first_phase_fields),
                     "registered", True)
    IN  Put(pcent, "certified",
            PyBool(certificate_status_of(uicent) \in certified_statuses))

RECURSIVE first_phase_loop(_, _)
first_phase_loop(tab, uicdat) ==
    IF uicdat = <<>> THEN tab
    ELSE first_phase_loop(OdSet(tab, Head(uicdat).key, first_phase_entry(Head(uicdat).ent)),
                          Tail(uicdat))

-----------------------------------------------------------------------------
(* Remote aggregate loader (bqutil.get_bq_table) *)

PcTables == {"pc_nchapters", "pc_forum", "pc_last_event", "pc_day_totals",
             "pc_modal_ip", "pc_geoip"}

\* the public geolocation reference joined by load_pc_geoip's query
geolite ==
    ("18.0.0.1" :> [country |-> PyUnicode("US"), city |-> PyUnicode("Cambridge"),
                    countryLabel |-> PyUnicode("United States"),
                    latitude |-> PyUnicode("42.3"),
                    longitude |-> PyUnicode("-71.1")])

\* pc_geoip's query: the rows of [dataset.pc_modal_ip] whose modal_ip is located
geoip_query(tables) ==
    LET ips == tables["pc_modal_ip"]
        found == {u \in DOMAIN ips :
                     Has(ips[u], "modal_ip") /\ Has(geolite, ips[u]["modal_ip"].s)}
    IN  [u \in found |-> Put(geolite[ips[u]["modal_ip"].s], "username", PyUnicode(u))]

\* the result of executing the query behind table `name` now
query_result(tables, src, name) ==
    IF name = "pc_geoip" THEN geoip_query(tables) ELSE src[name]

query_can_run(tables, name) ==
    name = "pc_geoip" => Has(tables, "pc_modal_ip")

table_exists(tables, name) == Has(tables, name)

runs_query(tables, name, force_query) ==
    force_query \/ ~table_exists(tables, name)

\* reuse unless forced: an existing table is read back, otherwise the query is
\* executed and persisted as the table
get_bq_table(tables, src, name, force_query) ==
    IF runs_query(tables, name, force_query)
    THEN LET rows == query_result(tables, src, name)
         IN  [tables |-> Put(tables, name, rows), data_by_key |-> rows,
              queried |-> TRUE]
    ELSE [tables |-> tables, data_by_key |-> tables[name], queried |-> FALSE]

\* the force_query argument each loader passes to get_bq_table
force_query_always(name) == TRUE

force_query_of(name) ==
    IF name = "pc_nchapters" THEN FALSE ELSE opts.force

-----------------------------------------------------------------------------
(* Course chapter count *)

RECURSIVE count_chapters(_)
count_chapters(cats) ==
    IF cats = <<>> THEN 0
    ELSE (IF Head(cats) = "chapter" THEN 1 ELSE 0) + count_chapters(Tail(cats))

-----------------------------------------------------------------------------
(* copy_from_bq_table: field is <<field>> or <<field, new_field>> *)

copy_from_bq_table(src, dst, username, field, mkutf) ==
    LET row == IF Has(src, username) THEN src[username] ELSE EmptyDict
        name == field[1]
        target == IF Len(field) = 2 THEN field[2] ELSE name
    IN  IF ~Has(row, name) THEN dst
        ELSE LET dst1 == Put(dst, target, row[name])
             IN  IF mkutf THEN Put(dst1, name, encode_utf8(dst1[name])) ELSE dst1

RECURSIVE copy_all_from_bq_table(_, _, _, _)
copy_all_from_bq_table(src, dst, username, field_list) ==
    IF field_list = <<>> THEN dst
    ELSE copy_all_from_bq_table(src,
             copy_from_bq_table(src, dst, username, Head(field_list), FALSE),
             username, Tail(field_list))

-----------------------------------------------------------------------------
(* Phase 2 *)

forum_fields ==
    << <<"nforum", "nforum_posts">>, <<"nvotes", "nforum_votes">>,
       <<"nendorsed", "nforum_endorsed">>, <<"nthread", "nforum_threads">>,
       <<"ncomment", "nforum_comments">>, <<"npinned", "nforum_pinned">> >>

\* nchapters_viewed >= total / 2, with Python 2 integer division
explored_strict(viewed_n, total) == viewed_n > total \div 2

explored_of(viewed_n, total) == viewed_n >= total \div 2

\* as second_phase_entry, with explored set to False for a user without a row
second_phase_entry_explored_false(pcent, pc_nchapters, pc_forum, total) ==
    LET uid == py_str(pcent["user_id"])
        seen == IF Has(pc_nchapters, uid)
                THEN LET n == int(pc_nchapters[uid]["nchapters"].s)
                     IN  Put(Put(Put(pcent, "viewed", True), "nchapters", PyInt(n)),
                             "explored", PyBool(explored_of(n, total)))
                ELSE Put(Put(pcent, "viewed", False), "explored", False)
    IN  copy_all_from_bq_table(pc_forum, seen, uid, forum_fields)

second_phase_entry(pcent, pc_nchapters, pc_forum, total) ==
    LET uid == py_str(pcent["user_id"])
        seen == IF Has(pc_nchapters, uid)
                THEN LET n == int(pc_nchapters[uid]["nchapters"].s)
                     IN  Put(Put(Put(pcent, "viewed", True), "nchapters", PyInt(n)),
                             "explored", PyBool(explored_of(n, total)))
                ELSE Put(pcent, "viewed", False)
    IN  copy_all_from_bq_table(pc_forum, seen, uid, forum_fields)

RECURSIVE second_phase_loop(_, _, _, _, _)
\* the loop over self.pctab from entry i on; a record without user_id raises
second_phase_loop(tab, i, pc_nchapters, pc_forum, total) ==
    IF i > Len(tab) THEN [tab |-> tab, err |-> ""]
    ELSE IF ~Has(tab[i].ent, "user_id") THEN [tab |-> tab, err |-> "KeyError"]
    ELSE second_phase_loop(
             [tab EXCEPT ![i].ent = second_phase_entry(@, pc_nchapters, pc_forum, total)],
             i + 1, pc_nchapters, pc_forum, total)

-----------------------------------------------------------------------------
(* Phase 3 *)

\* as pcd_fields, with nforum copied to nforum_posts and nvideo not renamed
pcd_fields_without_renames ==
    << <<"nevents">>, <<"ndays_act">>, <<"nprogcheck">>, <<"nshow_answer">>,
       <<"nvideo">>, <<"nproblem_check">>, <<"nforum", "nforum_posts">>,
       <<"ntranscript">>, <<"nseq_goto">>,
       <<"nseek_video">>, <<"npause_video">>, <<"avg_dt">>, <<"sdv_dt">>,
       <<"max_dt">>, <<"n_dt">>, <<"sum_dt">> >>

pcd_fields ==
    << <<"nevents">>, <<"ndays_act">>, <<"nprogcheck">>, <<"nshow_answer">>,
       <<"nvideo">>, <<"nproblem_check">>, <<"nforum", "nforum_events">>,
       <<"ntranscript">>, <<"nseq_goto">>, <<"nvideo", "nplay_video">>,
       <<"nseek_video">>, <<"npause_video">>, <<"avg_dt">>, <<"sdv_dt">>,
       <<"max_dt">>, <<"n_dt">>, <<"sum_dt">> >>

\* str(datetime.utcfromtimestamp(float(le))) for the timestamps of the model
utc_calendar == ("1380000000.0" :> "2013-09-24 05:20:00")

\* as last_event_of, with a value that cannot be converted replaced by ''
last_event_emptied(le) ==
    IF Has(utc_calendar, le.s) THEN PyStr(utc_calendar[le.s]) ELSE PyStr("")

\* a value that float() or utcfromtimestamp() rejects is logged and kept as it is
last_event_of(le) ==
    IF Has(utc_calendar, le.s) THEN PyStr(utc_calendar[le.s]) ELSE le

third_phase_entry(pcent, pc_last_event, pc_modal_ip, pc_day_totals) ==
    LET username == py_str(pcent["username"])
        row == IF Has(pc_last_event, username) THEN pc_last_event[username]
               ELSE EmptyDict
        with_le == IF Has(row, "last_event") /\ row["last_event"].s # ""
                   THEN Put(pcent, "last_event", last_event_of(row["last_event"]))
                   ELSE pcent
        with_ip == copy_from_bq_table(pc_modal_ip, with_le, username,
                                      <<"modal_ip", "ip">>, FALSE)
    IN  copy_all_from_bq_table(pc_day_totals, with_ip, username, pcd_fields)

RECURSIVE third_phase_loop(_, _, _, _, _)
third_phase_loop(tab, i, pc_last_event, pc_modal_ip, pc_day_totals) ==
    IF i > Len(tab) THEN [tab |-> tab, err |-> ""]
    ELSE IF ~Has(tab[i].ent, "username") THEN [tab |-> tab, err |-> "KeyError"]
    ELSE third_phase_loop(
             [tab EXCEPT ![i].ent =
                 third_phase_entry(@, pc_last_event, pc_modal_ip, pc_day_totals)],
             i + 1, pc_last_event, pc_modal_ip, pc_day_totals)

-----------------------------------------------------------------------------
(* Phase 4 *)

geoip_fields == << <<"country", "cc_by_ip">>, <<"latitude">>, <<"longitude">> >>

fourth_phase_entry(pcent, pc_geoip) ==
    LET username == py_str(pcent["username"])
        plain == copy_all_from_bq_table(pc_geoip, pcent, username, geoip_fields)
        label == copy_from_bq_table(pc_geoip, plain, username, <<"countryLabel">>, TRUE)
    IN  copy_from_bq_table(pc_geoip, label, username, <<"city">>, TRUE)

\* as fourth_phase_loop, with the records that have no pc_geoip row left out
fourth_phase_loop_dropping(tab, i, pc_geoip) ==
    [tab |-> SelectSeq([n \in 1..Len(tab) |->
                           [tab[n] EXCEPT !.ent = fourth_phase_entry(@, pc_geoip)]],
                       LAMBDA e : Has(pc_geoip, e.key)),
     err |-> ""]

RECURSIVE fourth_phase_loop(_, _, _)
fourth_phase_loop(tab, i, pc_geoip) ==
    IF i > Len(tab) THEN [tab |-> tab, err |-> ""]
    ELSE IF ~Has(tab[i].ent, "username") THEN [tab |-> tab, err |-> "KeyError"]
    ELSE fourth_phase_loop([tab EXCEPT ![i].ent = fourth_phase_entry(@, pc_geoip)],
                           i + 1, pc_geoip)

-----------------------------------------------------------------------------
(* Schema registry: schema_person_course.json and check_schema(coerce=True) *)

the_schema ==
    << <<"course_id", "STRING">>, <<"user_id", "INTEGER">>, <<"username", "STRING">>,
       <<"registered", "BOOLEAN">>, <<"viewed", "BOOLEAN">>, <<"explored", "BOOLEAN">>,
       <<"certified", "BOOLEAN">>, <<"ip", "STRING">>, <<"cc_by_ip", "STRING">>,
       <<"countryLabel", "STRING">>, <<"city", "STRING">>,
       <<"latitude", "FLOAT">>, <<"longitude", "FLOAT">>,
       <<"LoE", "STRING">>, <<"YoB", "STRING">>, <<"gender", "STRING">>,
       <<"grade", "FLOAT">>, <<"start_time", "TIMESTAMP">>,
       <<"last_event", "TIMESTAMP">>, <<"mode", "STRING">>, <<"roles", "STRING">>,
       <<"nevents", "INTEGER">>, <<"ndays_act", "INTEGER">>,
       <<"nplay_video", "INTEGER">>, <<"nchapters", "INTEGER">>,
       <<"nforum_posts", "INTEGER">>, <<"nforum_votes", "INTEGER">>,
       <<"nforum_endorsed", "INTEGER">>, <<"nforum_threads", "INTEGER">>,
       <<"nforum_comments", "INTEGER">>, <<"nforum_pinned", "INTEGER">>,
       <<"nprogcheck", "INTEGER">>, <<"nshow_answer", "INTEGER">>,
       <<"nvideo", "INTEGER">>, <<"nproblem_check", "INTEGER">>,
       <<"nforum_events", "INTEGER">>, <<"ntranscript", "INTEGER">>,
       <<"nseq_goto", "INTEGER">>, <<"nseek_video", "INTEGER">>,
       <<"npause_video", "INTEGER">>, <<"avg_dt", "FLOAT">>, <<"sdv_dt", "FLOAT">>,
       <<"max_dt", "FLOAT">>, <<"n_dt", "INTEGER">>, <<"sum_dt", "FLOAT">> >>

\* self.the_dict_schema: field name -> declared type
the_dict_schema ==
    [f \in {the_schema[i][1] : i \in 1..Len(the_schema)} |->
        (CHOOSE e \in {the_schema[i] : i \in 1..Len(the_schema)} : e[1] = f)[2]]

fieldnames == [i \in 1..Len(the_schema) |-> the_schema[i][1]]

\* the declared cast of one value; a value the cast rejects is kept (an anomaly)
coerce_value(v, type) ==
    CASE type = "INTEGER" /\ v.py \in {"str", "unicode"} /\ IsDecimal(v.s) ->
             [py |-> "int", s |-> v.s]
      [] type = "FLOAT" /\ v.py \in {"str", "unicode"} -> [py |-> "float", s |-> v.s]
      [] OTHER -> v

\* declared fields are cast, undeclared fields pass through
check_schema(pcent) ==
    [f \in DOMAIN pcent |->
        IF Has(the_dict_schema, f) THEN coerce_value(pcent[f], the_dict_schema[f])
        ELSE pcent[f]]

-----------------------------------------------------------------------------
(* Output: person_course.json.gz and person_course.csv.gz *)

ofnj == "person_course.json.gz"

ofn == "person_course.csv.gz"

\* the value json.loads gives back for what json.dumps wrote
json_value(v) == IF v.py = "str" THEN PyUnicode(v.s) ELSE v

json_line(pcent) == [f \in DOMAIN pcent |-> json_value(pcent[f])]

coerced(tab) == [i \in 1..Len(tab) |-> [tab[i] EXCEPT !.ent = check_schema(@)]]

json_lines(tab) == [i \in 1..Len(tab) |-> json_line(tab[i].ent)]

\* csv.DictWriter.writerow: one cell per field name, '' for an absent field
csv_row(pcent) ==
    [i \in 1..Len(fieldnames) |->
        IF Has(pcent, fieldnames[i]) THEN pcent[fieldnames[i]].s ELSE ""]

\* DictWriter raises ValueError on a key that is no field name
csv_accepts(pcent) == DOMAIN pcent \subseteq DOMAIN the_dict_schema

RECURSIVE write_csv(_, _, _)
write_csv(rows, tab, i) ==
    IF i > Len(tab) THEN [rows |-> rows, err |-> ""]
    ELSE IF ~csv_accepts(tab[i].ent) THEN [rows |-> rows, err |-> "ValueError"]
    ELSE write_csv(Append(rows, csv_row(tab[i].ent)), tab, i + 1)

-----------------------------------------------------------------------------
(* reload_table: person_course.json.gz read back into a plain dict *)

reload_line(dline) ==
    LET city == IF Has(dline, "city")
                THEN Put(dline, "city", encode_utf8(dline["city"])) ELSE dline
    IN  IF Has(city, "countryLabel")
        THEN Put(city, "countryLabel", encode_utf8(city["countryLabel"])) ELSE city

reload_ok(lines) == \A i \in 1..Len(lines) : Has(lines[i], "username")

\* data[key] = dline for every line: the last line of a username wins
reload_data(lines) ==
    [k \in {py_str(lines[i]["username"]) : i \in 1..Len(lines)} |->
        LET last == CHOOSE i \in 1..Len(lines) :
                        /\ py_str(lines[i]["username"]) = k
                        /\ \A j \in (i + 1)..Len(lines) : py_str(lines[j]["username"]) # k
        IN  reload_line(lines[last])]

\* the orders in which a plain dict of these keys may be iterated
Orderings(S) ==
    {o \in [1..Cardinality(S) -> S] : \A i, j \in 1..Cardinality(S) : o[i] = o[j] => i = j}

-----------------------------------------------------------------------------
(* Calendar dates <<year, month, day>> and the daily table ids *)

IsLeap(y) == (y % 4 = 0 /\ y % 100 # 0) \/ y % 400 = 0

DaysIn(y, m) ==
    IF m = 2 THEN (IF IsLeap(y) THEN 28 + 1 ELSE 28)
    ELSE IF m \in {4, 6, 9, 11} THEN 30 ELSE 31

\* k + datetime.timedelta(days=1)
NextDay(d) ==
    IF d[3] < DaysIn(d[1], d[2]) THEN <<d[1], d[2], d[3] + 1>>
    ELSE IF d[2] < 12 THEN <<d[1], d[2] + 1, 1>>
    ELSE <<d[1] + 1, 1, 1>>

\* as DateLeq, with the end date left out
date_before(a, b) ==
    \/ a[1] < b[1]
    \/ a[1] = b[1] /\ a[2] < b[2]
    \/ a[1] = b[1] /\ a[2] = b[2] /\ a[3] < b[3]

DateLeq(a, b) ==
    \/ a[1] < b[1]
    \/ a[1] = b[1] /\ a[2] < b[2]
    \/ a[1] = b[1] /\ a[2] = b[2] /\ a[3] <= b[3]

\* '%02d' % n
Pad2(n) == IF n < 10 THEN "0" \o str(n) ELSE str(n)

\* '%04d%02d%02d' % (k.year, k.month, k.day), for the four-digit years of the model
Ymd(d) == str(d[1]) \o Pad2(d[2]) \o Pad2(d[3])

RECURSIVE first_missing(_, _, _, _)
\* the loop over daterange(k, end): the first table id that is not in tables,
\* as <<tname>>; <<>> when the loop ends without raising
first_missing(k, end, tprefix, tables) ==
    IF ~DateLeq(k, end) THEN <<>>
    ELSE IF (tprefix \o "_" \o Ymd(k)) \notin tables
         THEN <<tprefix \o "_" \o Ymd(k)>>
         ELSE first_missing(NextDay(k), end, tprefix, tables)

\* <<>> when every daily table of [start_date, end_date] exists, else the
\* table named by the exception
ensure_all_daily_tables_loaded(dsuffix, tprefix) ==
    first_missing(opts.start, opts.end, tprefix, daily[dsuffix])

-----------------------------------------------------------------------------
(* Entry points and the methods they call, as sequences of steps *)

make_all_swapped ==
    <<"compute_first_phase", "compute_third_phase", "compute_second_phase",
      "compute_fourth_phase", "output_table", "upload_to_bigquery">>

make_all ==
    <<"compute_first_phase", "compute_second_phase", "compute_third_phase",
      "compute_fourth_phase", "output_table", "upload_to_bigquery">>

\* as redo_second_phase, with Phase 3 run after Phase 2
redo_second_phase_with_third_phase ==
    <<"reload_table", "compute_second_phase", "compute_third_phase", "output_table",
      "upload_to_bigquery">>

redo_second_phase ==
    <<"reload_table", "compute_second_phase", "output_table", "upload_to_bigquery">>

make_pc3 ==
    <<"reload_table", "compute_third_phase", "output_table", "upload_to_bigquery">>

EntryPoint(mode) ==
    CASE mode = "make_all" -> make_all
      [] mode = "redo2" -> redo_second_phase
      [] mode = "make_pc3" -> make_pc3

Body ==
    [compute_first_phase |-> <<"first_loop">>,
     reload_table |-> <<"reload">>,
     compute_second_phase |->
         <<"load_nchapters", "load_pc_forum", "get_nchapters_from_course_structure",
           "second_loop">>,
     compute_third_phase |->
         <<"load_last_event", "load_pc_day_totals", "load_modal_ip", "third_loop">>,
     compute_fourth_phase |-> <<"load_pc_geoip", "fourth_loop">>,
     output_table |-> <<"open_files", "write_json", "write_csv">>,
     upload_to_bigquery |->
         <<"upload_json", "upload_csv", "load_data_to_table", "add_description">>]

Program == EntryPoint(opts.mode)

Finished == pc.m > Len(Program)

Method == Program[pc.m]

At(step) == err = "" /\ ~Finished /\ Body[Method][pc.s] = step

Started == IF pc.s = 1 THEN Append(calls, Method) ELSE calls

Entered == IF pc.s = 1 THEN pctab ELSE entry

\* the step ends normally: on to the next step, or out of the method
Return ==
    /\ err' = err
    /\ calls' = Started
    /\ entry' = Entered
    /\ IF pc.s = Len(Body[Method])
       THEN pc' = [m |-> pc.m + 1, s |-> 1] /\ completed' = Append(completed, Method)
       ELSE pc' = [pc EXCEPT !.s = @ + 1] /\ completed' = completed

\* the step raises: nothing catches it inside make_person_course
Raise(e) ==
    /\ err' = e
    /\ calls' = Started
    /\ entry' = Entered
    /\ pc' = pc
    /\ completed' = completed

cli == <<args, cmd, processed, printed, outcome>>

env == <<seed, struct, source, daily, opts, run, prev, cli>>

remote == <<bq, gs, table, description>>

-----------------------------------------------------------------------------
(* Steps *)

FirstPhase ==
    /\ At("first_loop")
    /\ pctab' = first_phase_loop(pctab, load_json(seed, "username"))
    /\ Return
    /\ UNCHANGED <<agg, nchapters, loads, files, remote, env>>

ReloadTable ==
    /\ At("reload")
    /\ \/ /\ ~Has(files, ofnj)
          /\ Raise("IOError")
          /\ UNCHANGED pctab
       \/ /\ Has(files, ofnj)
          /\ ~reload_ok(files[ofnj])
          /\ Raise("KeyError")
          /\ UNCHANGED pctab
       \/ /\ Has(files, ofnj)
          /\ reload_ok(files[ofnj])
          /\ LET data == reload_data(files[ofnj])
             IN  \E o \in Orderings(DOMAIN data) :
                    pctab' = [i \in 1..Len(o) |-> [key |-> o[i], ent |-> data[o[i]]]]
          /\ Return
    /\ UNCHANGED <<agg, nchapters, loads, files, remote, env>>

\* as LoadAggregate, with the record store emptied when the remote call fails
LoadAggregateClearing(step, name) ==
    /\ At(step)
    /\ \/ /\ Raise("RemoteQueryError")
          /\ pctab' = <<>>
          /\ UNCHANGED <<bq, agg, loads>>
       \/ /\ runs_query(bq, name, force_query_of(name)) => query_can_run(bq, name)
          /\ LET r == get_bq_table(bq, source, name, force_query_of(name))
             IN  /\ bq' = r.tables
                 /\ agg' = Put(agg, name, r.data_by_key)
                 /\ loads' = Append(loads, [name |-> name,
                                            existed |-> table_exists(bq, name),
                                            force |-> opts.force,
                                            queried |-> r.queried])
          /\ pctab' = pctab
          /\ Return
    /\ UNCHANGED <<nchapters, files, gs, table, description, env>>

\* one load_* method: the remote call fails, or get_bq_table returns
LoadAggregate(step, name) ==
    /\ At(step)
    /\ \/ /\ Raise("RemoteQueryError")
          /\ UNCHANGED <<bq, agg, loads>>
       \/ /\ runs_query(bq, name, force_query_of(name)) => query_can_run(bq, name)
          /\ LET r == get_bq_table(bq, source, name, force_query_of(name))
             IN  /\ bq' = r.tables
                 /\ agg' = Put(agg, name, r.data_by_key)
                 /\ loads' = Append(loads, [name |-> name,
                                            existed |-> table_exists(bq, name),
                                            force |-> opts.force,
                                            queried |-> r.queried])
          /\ Return
    /\ UNCHANGED <<pctab, nchapters, files, gs, table, description, env>>

LoadNchapters == LoadAggregate("load_nchapters", "pc_nchapters")

LoadPcForum == LoadAggregate("load_pc_forum", "pc_forum")

LoadLastEvent == LoadAggregate("load_last_event", "pc_last_event")

LoadPcDayTotals == LoadAggregate("load_pc_day_totals", "pc_day_totals")

LoadModalIp == LoadAggregate("load_modal_ip", "pc_modal_ip")

LoadPcGeoip == LoadAggregate("load_pc_geoip", "pc_geoip")

GetNchaptersFromCourseStructure ==
    /\ At("get_nchapters_from_course_structure")
    /\ \/ /\ ~struct.exists
          /\ Raise("Exception")
          /\ UNCHANGED nchapters
       \/ /\ struct.exists
          /\ nchapters' = <<count_chapters(struct.cats)>>
          /\ Return
    /\ UNCHANGED <<pctab, agg, loads, files, remote, env>>

\* a record loop ends normally or with the exception that stopped it
Looped(r) ==
    /\ pctab' = r.tab
    /\ IF r.err = "" THEN Return ELSE Raise(r.err)

SecondPhaseLoop ==
    /\ At("second_loop")
    /\ Looped(second_phase_loop(pctab, 1, agg["pc_nchapters"], agg["pc_forum"],
                                nchapters[1]))
    /\ UNCHANGED <<agg, nchapters, loads, files, remote, env>>

ThirdPhaseLoop ==
    /\ At("third_loop")
    /\ Looped(third_phase_loop(pctab, 1, agg["pc_last_event"], agg["pc_modal_ip"],
                               agg["pc_day_totals"]))
    /\ UNCHANGED <<agg, nchapters, loads, files, remote, env>>

FourthPhaseLoop ==
    /\ At("fourth_loop")
    /\ Looped(fourth_phase_loop(pctab, 1, agg["pc_geoip"]))
    /\ UNCHANGED <<agg, nchapters, loads, files, remote, env>>

\* as OpenFiles, with the files opened for appending
OpenFilesAppend ==
    /\ At("open_files")
    /\ files' = Put(Put(files, ofnj, IF Has(files, ofnj) THEN files[ofnj] ELSE <<>>),
                    ofn, (IF Has(files, ofn) THEN files[ofn] ELSE <<>>) \o <<fieldnames>>)
    /\ Return
    /\ UNCHANGED <<pctab, agg, nchapters, loads, remote, env>>

\* both files are opened for writing and the CSV header is written
OpenFiles ==
    /\ At("open_files")
    /\ files' = Put(Put(files, ofnj, <<>>), ofn, <<fieldnames>>)
    /\ Return
    /\ UNCHANGED <<pctab, agg, nchapters, loads, remote, env>>

WriteJson ==
    /\ At("write_json")
    /\ pctab' = coerced(pctab)
    /\ files' = Put(files, ofnj, json_lines(coerced(pctab)))
    /\ Return
    /\ UNCHANGED <<agg, nchapters, loads, remote, env>>

\* as WriteCsv, with a row the writer rejects left out and the loop going on
WriteCsvSkipping ==
    /\ At("write_csv")
    /\ LET ok == SelectSeq(pctab, LAMBDA e : csv_accepts(e.ent))
       IN  files' = Put(files, ofn, files[ofn] \o [i \in 1..Len(ok) |-> csv_row(ok[i].ent)])
    /\ Return
    /\ UNCHANGED <<pctab, agg, nchapters, loads, remote, env>>

WriteCsv ==
    /\ At("write_csv")
    /\ LET r == write_csv(files[ofn], pctab, 1)
       IN  /\ files' = Put(files, ofn, r.rows)
           /\ IF r.err = "" THEN Return ELSE Raise(r.err)
    /\ UNCHANGED <<pctab, agg, nchapters, loads, remote, env>>

\* gsutil cp through os.system: its exit status is not looked at
UploadJson ==
    /\ At("upload_json")
    /\ gs' = Append(gs, ofnj)
    /\ Return
    /\ UNCHANGED <<pctab, agg, nchapters, loads, files, bq, table, description, env>>

UploadCsv ==
    /\ At("upload_csv")
    /\ gs' = Append(gs, ofn)
    /\ Return
    /\ UNCHANGED <<pctab, agg, nchapters, loads, files, bq, table, description, env>>

LoadDataToTable ==
    /\ At("load_data_to_table")
    /\ \/ /\ Raise("RemoteQueryError")
          /\ UNCHANGED table
       \/ /\ table' = <<files[ofnj]>>
          /\ Return
    /\ UNCHANGED <<pctab, agg, nchapters, loads, files, bq, gs, description, env>>

\* as AddDescription, with the note replacing the table's description
AddDescriptionReplacing ==
    /\ At("add_description")
    /\ \/ /\ nchapters = <<>>
          /\ Raise("AttributeError")
          /\ UNCHANGED description
       \/ /\ nchapters # <<>>
          /\ description' = <<[nchapters |-> nchapters[1], start |-> opts.start,
                               end |-> opts.end, done_at |-> run]>>
          /\ Return
    /\ UNCHANGED <<pctab, agg, nchapters, loads, files, bq, gs, table, env>>

\* the note reads self.nchapters, which only
\* get_nchapters_from_course_structure sets, and ends with the time of the run
AddDescription ==
    /\ At("add_description")
    /\ \/ /\ nchapters = <<>>
          /\ Raise("AttributeError")
          /\ UNCHANGED description
       \/ /\ nchapters # <<>>
          /\ description' = Append(description,
                                   [nchapters |-> nchapters[1], start |-> opts.start,
                                    end |-> opts.end, done_at |-> run])
          /\ Return
    /\ UNCHANGED <<pctab, agg, nchapters, loads, files, bq, gs, table, env>>

\* make_person_course is invoked again for the same course with the same
\* arguments: a new PersonCourse, the same course directory and dataset
Rerun ==
    /\ Finished
    /\ err = ""
    /\ run < MaxRuns
    /\ run' = run + 1
    /\ prev' = [mode |-> opts.mode, force |-> opts.force, files |-> files]
    /\ pctab' = <<>>
    /\ agg' = EmptyDict
    /\ nchapters' = <<>>
    /\ pc' = [m |-> 1, s |-> 1]
    /\ calls' = <<>>
    /\ completed' = <<>>
    /\ loads' = <<>>
    /\ entry' = <<>>
    /\ gs' = <<>>
    /\ UNCHANGED <<seed, struct, source, daily, opts, bq, files, table, description, err,
                   cli>>

-----------------------------------------------------------------------------
(* Inputs *)

\* rows a user_info_combo file may hold
SeedRows ==
    << [username |-> PyUnicode("alice"), user_id |-> PyInt(1),
        certificate_status |-> PyUnicode("downloadable"),
        enrollment_course_id |-> PyUnicode("X"),
        certificate_course_id |-> PyUnicode("Y"),
        profile_gender |-> PyUnicode("f")],
       [username |-> PyUnicode("bob"), user_id |-> PyUnicode("2"),
        certificate_status |-> PyUnicode("notpassing"),
        certificate_course_id |-> PyUnicode("X")],
       [username |-> PyUnicode("carol"),
        certificate_status |-> PyUnicode("unavailable"),
        enrollment_mode |-> PyUnicode("honor")],
       [user_id |-> PyInt(4), certificate_status |-> PyUnicode("downloadable")],
       [username |-> PyUnicode("alice"), user_id |-> PyInt(1),
        enrollment_course_id |-> PyUnicode("X")] >>

RECURSIVE SeqsUpTo(_, _)
\* the sequences over S of length at most n
SeqsUpTo(S, n) ==
    IF n = 0 THEN {<<>>}
    ELSE LET shorter == SeqsUpTo(S, n - 1)
         IN  shorter \cup {Append(q, x) : q \in shorter, x \in S}

Seeds ==
    {[i \in 1..Len(q) |-> SeedRows[q[i]]] : q \in SeqsUpTo(1..Len(SeedRows), MaxRows)}

NchaptersRow(uid, n) == [user_id |-> PyUnicode(uid), nchapters |-> PyUnicode(str(n))]

\* what the aggregate queries compute from the course's source tables
FreshTables ==
    [pc_nchapters |-> ("1" :> NchaptersRow("1", 6)) @@ ("3" :> NchaptersRow("3", 1)),
     pc_forum |->
        ("1" :> [user_id |-> PyUnicode("1"), nforum |-> PyUnicode("3"),
                 nvotes |-> PyUnicode("1"), nthread |-> PyUnicode("2"),
                 ncomment |-> PyUnicode("1")]),
     pc_last_event |->
        ("alice" :> [username |-> PyUnicode("alice"),
                     last_event |-> PyUnicode("1380000000.0")])
        @@ ("bob" :> [username |-> PyUnicode("bob"),
                      last_event |-> PyUnicode("garbage")])
        @@ ("carol" :> [username |-> PyUnicode("carol"), last_event |-> PyUnicode("")]),
     pc_day_totals |->
        ("alice" :> [username |-> PyUnicode("alice"), nevents |-> PyUnicode("9"),
                     ndays_act |-> PyUnicode("3"), nforum |-> PyUnicode("7"),
                     nvideo |-> PyUnicode("5"), sum_dt |-> PyUnicode("12.5")]),
     pc_modal_ip |->
        ("alice" :> [username |-> PyUnicode("alice"), modal_ip |-> PyUnicode("18.0.0.1")])
        @@ ("bob" :> [username |-> PyUnicode("bob"), modal_ip |-> PyUnicode("10.0.0.1")])]

\* what tables materialized by an earlier run may hold
StaleTables ==
    [pc_nchapters |-> ("1" :> NchaptersRow("1", 2)) @@ ("2" :> NchaptersRow("2", 4)),
     pc_forum |-> ("2" :> [user_id |-> PyUnicode("2"), nforum |-> PyUnicode("1")]),
     pc_last_event |->
        ("alice" :> [username |-> PyUnicode("alice"), last_event |-> PyUnicode("garbage")]),
     pc_day_totals |->
        ("bob" :> [username |-> PyUnicode("bob"), nevents |-> PyUnicode("1"),
                   nforum |-> PyUnicode("2")]),
     pc_modal_ip |->
        ("bob" :> [username |-> PyUnicode("bob"), modal_ip |-> PyUnicode("18.0.0.1")]),
     pc_geoip |->
        ("alice" :> [username |-> PyUnicode("alice"), country |-> PyUnicode("FR"),
                     city |-> PyUnicode("Paris"), countryLabel |-> PyUnicode("France")])]

\* a person_course.json.gz published by an earlier run
Published ==
    << [username |-> PyUnicode("alice"), user_id |-> PyInt(1),
        registered |-> True, certified |-> True, viewed |-> True,
        explored |-> True, nchapters |-> PyInt(6), nevents |-> PyInt(9),
        ip |-> PyUnicode("18.0.0.1"), city |-> PyUnicode("Cambridge")],
       [username |-> PyUnicode("bob"), user_id |-> PyInt(2),
        registered |-> True, certified |-> False, viewed |-> False,
        nforum_posts |-> PyInt(1)],
       [username |-> PyUnicode("dave"), user_id |-> PyInt(5),
        registered |-> True, certified |-> False, viewed |-> True,
        explored |-> True, nchapters |-> PyInt(3)] >>

\* a published file whose lines carry a field the schema does not declare
PublishedExtra ==
    << [username |-> PyUnicode("alice"), user_id |-> PyInt(1),
        registered |-> True, certified |-> True,
        forumRoles_isStudent |-> PyUnicode("1")],
       [username |-> PyUnicode("bob"), user_id |-> PyInt(2),
        registered |-> True, certified |-> False] >>

\* a course structure document with n chapters among its entries
Structure(n) ==
    [exists |-> TRUE,
     cats |-> <<"course">> \o [i \in 1..n |-> "chapter"] \o <<"sequential", "vertical">>]

NoStructure == [exists |-> FALSE, cats |-> <<>>]

TwoChapters == Structure(2)

Days == << <<2013, 12, 30>>, <<2013, 12, 31>>, <<2014, 1, 1>> >>

DayTables(prefix) == {prefix \o "_" \o Ymd(Days[i]) : i \in 1..Len(Days)}

AllDaily == [logs |-> DayTables("tracklog"), pcday |-> DayTables("pcday")]

\* make_person_course(course_id, start, end, force_recompute, options)
Options(mode, force) ==
    [mode |-> mode, force |-> force, start |-> Days[1], end |-> Days[2]]

\* make_pc3(course_id, cdir): PersonCourse's own defaults
start_date_default == <<2012, 1, 1>>

end_date_default == <<2014, 9, 21>>

make_pc3_options ==
    [mode |-> "make_pc3", force |-> FALSE,
     start |-> start_date_default, end |-> end_date_default]

\* make_person_course called on its own, not from the command line
no_args ==
    [command |-> "", courses |-> <<>>, start_date |-> <<>>, end_date |-> <<>>,
     force_recompute |-> FALSE]

\* seed files of every shape, on a dataset with no or with all aggregates
SeedInputs ==
    [seed : Seeds, struct : {TwoChapters, NoStructure}, source : {FreshTables},
     bq : {EmptyDict, StaleTables}, daily : {AllDaily},
     opts : {Options("make_all", FALSE)}, files : {EmptyDict}]

\* every subset of materialized aggregates, every entry point, forced or not
RemoteInputs ==
    [seed : {SubSeq(SeedRows, 1, 2)}, struct : {TwoChapters}, source : {FreshTables},
     bq : {Restrict(StaleTables, ts) : ts \in SUBSET PcTables}, daily : {AllDaily},
     opts : {Options(m, f) : m \in {"make_all", "redo2"}, f \in BOOLEAN}
            \cup {make_pc3_options},
     files : {EmptyDict, (ofnj :> Published), (ofnj :> PublishedExtra)}]

\* every chapter count against every number of chapters viewed
ChapterInputs ==
    [seed : {SubSeq(SeedRows, 1, 1)},
     struct : {Structure(n) : n \in 0..MaxChapters},
     source : {[FreshTables EXCEPT !.pc_nchapters = ("1" :> NchaptersRow("1", n))] :
                  n \in 0..MaxChapters},
     bq : {EmptyDict}, daily : {AllDaily},
     opts : {Options("make_all", FALSE)}, files : {EmptyDict}]

\* every date range over the days of the model, every set of daily tables
DateInputs ==
    [seed : {SubSeq(SeedRows, 1, 1)}, struct : {TwoChapters}, source : {FreshTables},
     bq : {EmptyDict},
     daily : {[logs |-> ts, pcday |-> DayTables("pcday")] :
                 ts \in SUBSET DayTables("tracklog")},
     opts : {[Options("make_all", FALSE) EXCEPT !.start = Days[i], !.end = Days[j]] :
                i, j \in 1..Len(Days)},
     files : {EmptyDict}]

Inputs == SeedInputs \cup RemoteInputs \cup ChapterInputs \cup DateInputs

-----------------------------------------------------------------------------
(* The command line (main.py) *)

\* get_course_ids(args) without --year2
get_course_ids == args.courses

\* `a or b` of an optional argument: <<>> is None
or_default(a, b) == IF a = <<>> THEN b ELSE a[1]

start_of_person_course == <<2012, 9, 5>>

end_of_person_course == <<2014, 9, 21>>

\* the steps of setup_sql(args, steps, course_id) that `doall or step in steps`
\* lets run, steps being the command's name
setup_sql_steps(command) ==
    IF command = "setup_sql" THEN <<"make_uic", "sql2bq", "load_forum">>
    ELSE <<command>>

SetupSqlCommands == {"make_uic", "sql2bq", "load_forum", "setup_sql"}

\* setup_sql is at `step` for the course of the outer loop
InSetupSql(step) ==
    /\ outcome = ""
    /\ args.command \in SetupSqlCommands
    /\ cmd.i <= Len(get_course_ids)
    /\ setup_sql_steps(args.command)[cmd.k] = step

\* the step is over: on to the next step of this course, or to the next course
\* of the outer loop, or out of the command
StepReturns ==
    LET next == IF cmd.k = Len(setup_sql_steps(args.command))
                THEN [cmd EXCEPT !.i = @ + 1, !.k = 1, !.j = 1]
                ELSE [cmd EXCEPT !.k = @ + 1, !.j = 1]
    IN  /\ cmd' = next
        /\ outcome' = IF next.i > Len(get_course_ids) THEN "returned" ELSE ""

pipeline == <<seed, struct, source, bq, daily, opts, pctab, agg, nchapters, pc, err,
              calls, completed, loads, entry, files, gs, table, description, run, prev>>

\* make_user_info_combo.process_file: no handler around it
MakeUic ==
    /\ InSetupSql("make_uic")
    /\ processed' = Append(processed, [course |-> get_course_ids[cmd.i],
                                       step |-> "make_uic"])
    /\ \/ /\ outcome' = "raised"
          /\ UNCHANGED <<cmd, printed>>
       \/ /\ StepReturns
          /\ UNCHANGED printed
    /\ UNCHANGED <<args, pipeline>>

\* load_course_sql.load_sql_for_course: an exception is printed
Sql2bq ==
    /\ InSetupSql("sql2bq")
    /\ processed' = Append(processed, [course |-> get_course_ids[cmd.i],
                                       step |-> "sql2bq"])
    /\ \/ printed' = Append(printed, [course |-> get_course_ids[cmd.i],
                                      step |-> "sql2bq", err |-> "Exception"])
       \/ UNCHANGED printed
    /\ StepReturns
    /\ UNCHANGED <<args, pipeline>>

\* one turn of the loop over get_course_ids(args) inside the load_forum step
LoadForum ==
    /\ InSetupSql("load_forum")
    /\ processed' = Append(processed, [course |-> get_course_ids[cmd.j],
                                       step |-> "load_forum"])
    /\ \/ printed' = Append(printed, [course |-> get_course_ids[cmd.j],
                                      step |-> "load_forum", err |-> "Exception"])
       \/ UNCHANGED printed
    /\ IF cmd.j < Len(get_course_ids)
       THEN cmd' = [cmd EXCEPT !.j = @ + 1] /\ outcome' = outcome
       ELSE StepReturns
    /\ UNCHANGED <<args, pipeline>>

\* make_person_course(course_id, start, end, force_recompute, options): the
\* arguments PersonCourse is built with and the entry point that is called;
\* options is the set of words of the options string
make_person_course(start, end, force_recompute, options) ==
    [mode |-> IF "redo2" \in options THEN "redo2" ELSE "make_all",
     force |-> force_recompute \/ "force_recompute" \in options,
     start |-> start, end |-> end]

\* the SQL directory and the datasets of a course
CourseEnv(course_id) ==
    [seed |-> IF course_id = "c1" THEN SubSeq(SeedRows, 1, 2) ELSE SubSeq(SeedRows, 1, 1),
     struct |-> IF course_id = "c2" THEN NoStructure ELSE TwoChapters,
     source |-> FreshTables, bq |-> EmptyDict, daily |-> AllDaily, files |-> EmptyDict]

AtPersonCourse ==
    /\ outcome = ""
    /\ args.command = "person_course"
    /\ cmd.i <= Len(get_course_ids)

\* make_person_course is called for the course of the loop: a new PersonCourse
\* on the course's directory and dataset
PersonCourseCalled ==
    /\ AtPersonCourse
    /\ ~cmd.called
    /\ cmd' = [cmd EXCEPT !.called = TRUE]
    /\ processed' = Append(processed, [course |-> get_course_ids[cmd.i],
                                       step |-> "person_course"])
    /\ opts' = make_person_course(or_default(args.start_date, start_of_person_course),
                                  or_default(args.end_date, end_of_person_course),
                                  args.force_recompute, {})
    /\ LET dir == CourseEnv(get_course_ids[cmd.i])
       IN  /\ seed' = dir.seed
           /\ struct' = dir.struct
           /\ source' = dir.source
           /\ bq' = dir.bq
           /\ daily' = dir.daily
           /\ files' = dir.files
    /\ pctab' = <<>>
    /\ agg' = EmptyDict
    /\ nchapters' = <<>>
    /\ pc' = [m |-> 1, s |-> 1]
    /\ err' = ""
    /\ calls' = <<>>
    /\ completed' = <<>>
    /\ loads' = <<>>
    /\ entry' = <<>>
    /\ gs' = <<>>
    /\ table' = <<>>
    /\ description' = <<>>
    /\ UNCHANGED <<args, printed, outcome, run, prev>>

\* make_person_course returned: the loop goes on to the next course
PersonCourseReturns ==
    /\ AtPersonCourse
    /\ cmd.called
    /\ Finished /\ err = ""
    /\ cmd' = [cmd EXCEPT !.i = @ + 1, !.called = FALSE]
    /\ outcome' = IF cmd.i + 1 > Len(get_course_ids) THEN "returned" ELSE ""
    /\ UNCHANGED <<args, processed, printed, pipeline>>

\* as PersonCourseRaises, with the error printed and the loop going on
PersonCourseRaisesAndGoesOn ==
    /\ AtPersonCourse
    /\ cmd.called
    /\ err # ""
    /\ printed' = Append(printed, [course |-> get_course_ids[cmd.i],
                                   step |-> "person_course", err |-> err])
    /\ cmd' = [cmd EXCEPT !.i = @ + 1, !.called = FALSE]
    /\ outcome' = IF cmd.i + 1 > Len(get_course_ids) THEN "returned" ELSE ""
    /\ UNCHANGED <<args, processed, pipeline>>

\* make_person_course raised: the error is printed and raised again
PersonCourseRaises ==
    /\ AtPersonCourse
    /\ cmd.called
    /\ err # ""
    /\ printed' = Append(printed, [course |-> get_course_ids[cmd.i],
                                   step |-> "person_course", err |-> err])
    /\ outcome' = "raised"
    /\ UNCHANGED <<args, cmd, processed, pipeline>>

Courses == {"c1", "c2", "c3"}

\* lists of distinct courses, at least one
CourseLists ==
    {q \in SeqsUpTo(Courses, MaxCourses) :
        q # <<>> /\ \A i, j \in 1..Len(q) : q[i] = q[j] => i = j}

Commands == SetupSqlCommands \cup {"person_course"}

CommandLines ==
    [command : Commands, courses : CourseLists,
     start_date : {<<>>, <<Days[1]>>}, end_date : {<<>>, <<Days[3]>>},
     force_recompute : BOOLEAN]

-----------------------------------------------------------------------------
(* Specification *)

Init ==
    \E in \in Inputs :
        /\ seed = in.seed
        /\ struct = in.struct
        /\ source = in.source
        /\ bq = in.bq
        /\ daily = in.daily
        /\ opts = in.opts
        /\ files = in.files
        /\ pctab = <<>>
        /\ agg = EmptyDict
        /\ nchapters = <<>>
        /\ pc = [m |-> 1, s |-> 1]
        /\ err = ""
        /\ calls = <<>>
        /\ completed = <<>>
        /\ loads = <<>>
        /\ entry = <<>>
        /\ gs = <<>>
        /\ table = <<>>
        /\ description = <<>>
        /\ run = 1
        /\ prev = [mode |-> "", force |-> FALSE, files |-> EmptyDict]
        /\ args = no_args
        /\ cmd = [i |-> 1, k |-> 1, j |-> 1, called |-> FALSE]
        /\ processed = <<>>
        /\ printed = <<>>
        /\ outcome = ""

Next ==
    \/ FirstPhase
    \/ ReloadTable
    \/ LoadNchapters
    \/ LoadPcForum
    \/ GetNchaptersFromCourseStructure
    \/ SecondPhaseLoop
    \/ LoadLastEvent
    \/ LoadPcDayTotals
    \/ LoadModalIp
    \/ ThirdPhaseLoop
    \/ LoadPcGeoip
    \/ FourthPhaseLoop
    \/ OpenFiles
    \/ WriteJson
    \/ WriteCsv
    \/ UploadJson
    \/ UploadCsv
    \/ LoadDataToTable
    \/ AddDescription
    \/ Rerun

Spec == Init /\ [][Next]_vars

\* the command line: no PersonCourse exists until person_course builds one
MainInit ==
    /\ args \in CommandLines
    /\ cmd = [i |-> 1, k |-> 1, j |-> 1, called |-> FALSE]
    /\ processed = <<>>
    /\ printed = <<>>
    /\ outcome = ""
    /\ seed = <<>>
    /\ struct = NoStructure
    /\ source = FreshTables
    /\ bq = EmptyDict
    /\ daily = AllDaily
    /\ files = EmptyDict
    /\ opts = make_person_course(start_of_person_course, end_of_person_course, FALSE, {})
    /\ pctab = <<>>
    /\ agg = EmptyDict
    /\ nchapters = <<>>
    /\ pc = [m |-> Len(make_all) + 1, s |-> 1]
    /\ err = ""
    /\ calls = <<>>
    /\ completed = <<>>
    /\ loads = <<>>
    /\ entry = <<>>
    /\ gs = <<>>
    /\ table = <<>>
    /\ description = <<>>
    /\ run = 1
    /\ prev = [mode |-> "", force |-> FALSE, files |-> EmptyDict]

MainNext ==
    \/ MakeUic
    \/ Sql2bq
    \/ LoadForum
    \/ PersonCourseCalled
    \/ PersonCourseReturns
    \/ PersonCourseRaises
    \/ FirstPhase
    \/ LoadNchapters
    \/ LoadPcForum
    \/ GetNchaptersFromCourseStructure
    \/ SecondPhaseLoop
    \/ LoadLastEvent
    \/ LoadPcDayTotals
    \/ LoadModalIp
    \/ ThirdPhaseLoop
    \/ LoadPcGeoip
    \/ FourthPhaseLoop
    \/ OpenFiles
    \/ WriteJson
    \/ WriteCsv
    \/ UploadJson
    \/ UploadCsv
    \/ LoadDataToTable
    \/ AddDescription

MainSpec == MainInit /\ [][MainNext]_vars

-----------------------------------------------------------------------------
(* The daily-table checks, called on a PersonCourse of their own *)

\* msg of the exception: the missing table and the dataset
missing_table_msg(tname, dsuffix) ==
    "Oops, missing needed table " \o tname \o " from database dataset_" \o dsuffix

\* self.ensure_all_daily_tables_loaded(dsuffix, tprefix) called as `method`
EnsureCalled(method, dsuffix, tprefix) ==
    /\ calls = <<>>
    /\ err = ""
    /\ calls' = <<method>>
    /\ LET missing == ensure_all_daily_tables_loaded(dsuffix, tprefix)
       IN  IF missing = <<>>
           THEN completed' = <<method>> /\ err' = err
           ELSE completed' = completed /\ err' = missing_table_msg(missing[1], dsuffix)
    /\ UNCHANGED <<seed, struct, source, bq, daily, opts, pctab, agg, nchapters, pc,
                   loads, entry, files, gs, table, description, run, prev, cli>>

EnsureAllDailyTrackingLogsLoaded ==
    EnsureCalled("ensure_all_daily_tracking_logs_loaded", "logs", "tracklog")

EnsureAllPcDayTablesLoaded ==
    EnsureCalled("ensure_all_pc_day_tables_loaded", "pcday", "pcday")

\* a PersonCourse with any date range over the days of the model, on any sets
\* of daily tables
EnsureInit ==
    /\ daily \in [logs : SUBSET DayTables("tracklog"), pcday : SUBSET DayTables("pcday")]
    /\ \E i, j \in 1..Len(Days) :
          opts = make_person_course(Days[i], Days[j], FALSE, {})
    /\ args = no_args
    /\ cmd = [i |-> 1, k |-> 1, j |-> 1, called |-> FALSE]
    /\ processed = <<>>
    /\ printed = <<>>
    /\ outcome = ""
    /\ seed = <<>>
    /\ struct = NoStructure
    /\ source = FreshTables
    /\ bq = EmptyDict
    /\ files = EmptyDict
    /\ pctab = <<>>
    /\ agg = EmptyDict
    /\ nchapters = <<>>
    /\ pc = [m |-> Len(make_all) + 1, s |-> 1]
    /\ err = ""
    /\ calls = <<>>
    /\ completed = <<>>
    /\ loads = <<>>
    /\ entry = <<>>
    /\ gs = <<>>
    /\ table = <<>>
    /\ description = <<>>
    /\ run = 1
    /\ prev = [mode |-> "", force |-> FALSE, files |-> EmptyDict]

EnsureNext ==
    \/ EnsureAllDailyTrackingLogsLoaded
    \/ EnsureAllPcDayTablesLoaded

EnsureSpec == EnsureInit /\ [][EnsureNext]_vars

-----------------------------------------------------------------------------
(* Properties *)

IsPrefix(p, q) == Len(p) <= Len(q) /\ SubSeq(q, 1, Len(p)) = p

Range(q) == {q[i] : i \in 1..Len(q)}

Done(method) == method \in Range(completed)

\* the method has just returned: nothing of the next one has run yet
JustDone(method) ==
    completed # <<>> /\ completed[Len(completed)] = method /\ pc.s = 1

\* the seed row a record comes from: the last row of its username
SeedRowOf(key) ==
    seed[CHOOSE i \in 1..Len(seed) :
            /\ Has(seed[i], "username") /\ seed[i]["username"].s = key
            /\ \A j \in (i + 1)..Len(seed) :
                  ~(Has(seed[j], "username") /\ seed[j]["username"].s = key)]

\* C1: after compute_first_phase every record has registered = True and has
\* certified present with a boolean value, whatever fields its seed row carries.
C1_RegisteredAndCertifiedSet ==
    Done("compute_first_phase") =>
        \A i \in 1..Len(pctab) :
            /\ Has(pctab[i].ent, "registered")
            /\ pctab[i].ent["registered"] = True
            /\ Has(pctab[i].ent, "certified")
            /\ pctab[i].ent["certified"] \in {True, False}

C1_Witness ==
    /\ JustDone("compute_first_phase")
    /\ Len(pctab) = 2
    /\ \E i \in 1..Len(pctab) : ~Has(SeedRowOf(pctab[i].key), "certificate_status")
    /\ \E i \in 1..Len(pctab) : ~Has(SeedRowOf(pctab[i].key), "user_id")

\* C2: after compute_first_phase a record's certified is True exactly when its
\* seed row's certificate_status is "downloadable" or "unavailable", and False
\* for any other status and for an absent status.
C2_CertifiedFromStatus ==
    JustDone("compute_first_phase") =>
        \A i \in 1..Len(pctab) :
            LET row == SeedRowOf(pctab[i].key)
                passed == /\ Has(row, "certificate_status")
                          /\ \/ row["certificate_status"].s = "downloadable"
                             \/ row["certificate_status"].s = "unavailable"
            IN  pctab[i].ent["certified"] = (IF passed THEN True ELSE False)

C2_Witness ==
    /\ JustDone("compute_first_phase")
    /\ \E i \in 1..Len(pctab) :
          /\ Has(SeedRowOf(pctab[i].key), "certificate_status")
          /\ SeedRowOf(pctab[i].key)["certificate_status"].s = "unavailable"
          /\ pctab[i].ent["certified"] = True
    /\ \E i \in 1..Len(pctab) :
          /\ ~Has(SeedRowOf(pctab[i].key), "certificate_status")
          /\ pctab[i].ent["certified"] = False

\* the viewed-chapter count of the pc_nchapters row of a record's user_id
ViewedCount(ent) == int(agg["pc_nchapters"][ent["user_id"].s]["nchapters"].s)

HasNchaptersRow(ent) ==
    Has(ent, "user_id") /\ Has(agg["pc_nchapters"], ent["user_id"].s)

\* C3: after compute_second_phase, a record whose user_id has a pc_nchapters
\* row with count n has explored = True exactly when n >= T div 2, T the course
\* chapter count (that is, when T <= 2n + 1); T = 10, n = 5 gives True and
\* T = 10, n = 4 gives False.
C3_ExploredThreshold ==
    JustDone("compute_second_phase") =>
        \A i \in 1..Len(pctab) :
            HasNchaptersRow(pctab[i].ent) =>
                LET n == ViewedCount(pctab[i].ent)
                    T == nchapters[1]
                    explored == pctab[i].ent["explored"]
                IN  /\ explored = (IF T <= 2 * n + 1 THEN True ELSE False)
                    /\ (T = 10 /\ n = 5) => explored = True
                    /\ (T = 10 /\ n = 4) => explored = False

C3_Witness ==
    /\ JustDone("compute_second_phase")
    /\ nchapters = <<10>>
    /\ Len(pctab) = 1
    /\ HasNchaptersRow(pctab[1].ent)
    /\ ViewedCount(pctab[1].ent) = 4
    /\ pctab[1].ent["explored"] = False

\* C4: after compute_second_phase, a record whose user_id has no pc_nchapters
\* row has viewed = False, and its explored and nchapters fields are as they
\* were at phase entry: unset on a fresh run, never written.
C4_NoRowLeavesExploredUnset ==
    JustDone("compute_second_phase") =>
        \A i \in 1..Len(pctab) :
            (Has(pctab[i].ent, "user_id") /\ ~HasNchaptersRow(pctab[i].ent)) =>
                /\ pctab[i].ent["viewed"] = False
                /\ \A f \in {"explored", "nchapters"} :
                      /\ Has(pctab[i].ent, f) <=> Has(entry[i].ent, f)
                      /\ Has(pctab[i].ent, f) => pctab[i].ent[f] = entry[i].ent[f]
                      /\ opts.mode = "make_all" => ~Has(pctab[i].ent, f)

C4_Witness ==
    /\ JustDone("compute_second_phase")
    /\ opts.mode = "make_all"
    /\ \E i \in 1..Len(pctab) :
          /\ Has(pctab[i].ent, "user_id")
          /\ ~HasNchaptersRow(pctab[i].ent)
          /\ pctab[i].ent["viewed"] = False
          /\ ~Has(pctab[i].ent, "explored")

\* the record loop of compute_second_phase has run, to its end or to an exception
SecondLoopActed ==
    \/ Done("compute_second_phase")
    \/ /\ err # ""
       /\ ~Finished
       /\ Method = "compute_second_phase"
       /\ Body[Method][pc.s] = "second_loop"

\* C5: Phase 2 sets viewed on every record of the store, those without a
\* user_id included: viewed is present, and True exactly when the string form
\* of the user_id is a key of pc_nchapters (then nchapters is the row's count).
C5_ViewedOnEveryRecord ==
    SecondLoopActed =>
        \A i \in 1..Len(pctab) :
            /\ Has(pctab[i].ent, "viewed")
            /\ pctab[i].ent["viewed"] =
                  (IF HasNchaptersRow(pctab[i].ent) THEN True ELSE False)
            /\ HasNchaptersRow(pctab[i].ent) =>
                  pctab[i].ent["nchapters"].s = str(ViewedCount(pctab[i].ent))

\* C6: on make_all the methods start in the order Phase 1, 2, 3, 4, output,
\* upload, each after the one before it returned, none skipped or repeated,
\* and nothing runs once a step has raised.
C6_PhaseOrder ==
    /\ [](opts.mode = "make_all" =>
            /\ IsPrefix(calls, <<"compute_first_phase", "compute_second_phase",
                                 "compute_third_phase", "compute_fourth_phase",
                                 "output_table", "upload_to_bigquery">>)
            /\ IsPrefix(completed, calls)
            /\ Len(calls) <= Len(completed) + 1
            /\ (Finished => Len(completed) = 6 /\ err = ""))
    /\ [][err # "" => UNCHANGED vars]_vars

C6_Witness ==
    /\ opts.mode = "make_all"
    /\ Finished
    /\ Len(completed) = 6
    /\ Len(pctab) = 2

Phase3Tables == {"pc_last_event", "pc_day_totals", "pc_modal_ip"}

\* some date of [start_date, end_date] has no daily table
MissingDailyTable ==
    \/ ensure_all_daily_tables_loaded("logs", "tracklog") # <<>>
    \/ ensure_all_daily_tables_loaded("pcday", "pcday") # <<>>

\* C7: when a date of [start_date, end_date] has no daily table,
\* compute_third_phase raises before any of its aggregate loads is issued and
\* modifies no record.
C7_CompletenessBeforeLoads ==
    MissingDailyTable =>
        /\ \A i \in 1..Len(loads) : loads[i].name \notin Phase3Tables
        /\ ~Done("compute_third_phase")

\* C8: with force-recompute false no aggregate load executes a fresh query for
\* a table that already exists; the existing table's contents are what it loads.
C8_ReuseUnlessForced ==
    \A i \in 1..Len(loads) :
        (~loads[i].force /\ loads[i].existed) =>
            /\ ~loads[i].queried
            /\ agg[loads[i].name] = bq[loads[i].name]

C8_Witness ==
    /\ ~opts.force
    /\ Len(loads) = Cardinality(PcTables)
    /\ \A i \in 1..Len(loads) : loads[i].existed /\ ~loads[i].queried
    /\ agg["pc_forum"] = StaleTables["pc_forum"]

\* C9: with force-recompute true every aggregate the pipeline obtains is
\* requested as a new remote query, also when its table already exists.
C9_ForcedLoadsQuery ==
    \A i \in 1..Len(loads) : loads[i].force => loads[i].queried

\* C10: make_all run twice on the same seed file and unchanged remote tables,
\* with force-recompute false, writes the same structured and flattened
\* artifacts: the same records, field values and order.
C10_Idempotent ==
    (/\ run > 1 /\ Finished /\ err = ""
     /\ opts.mode = "make_all" /\ prev.mode = "make_all"
     /\ ~opts.force /\ ~prev.force) =>
        /\ files[ofnj] = prev.files[ofnj]
        /\ files[ofn] = prev.files[ofn]

C10_Witness ==
    /\ run > 1 /\ Finished /\ err = ""
    /\ opts.mode = "make_all" /\ ~opts.force
    /\ Len(files[ofnj]) = 2
    /\ Len(files[ofn]) = 3
    /\ files[ofnj] = prev.files[ofnj]

\* C11: copy_fields with a list of candidates sets the destination to the value
\* of the first candidate, in list order, that the source row has, and leaves
\* it unset when the row has none: after compute_first_phase course_id is the
\* row's enrollment_course_id if present, else its certificate_course_id if
\* present, else absent; a single-candidate field is copied when present.
C11_FirstPresentCandidate ==
    JustDone("compute_first_phase") =>
        \A i \in 1..Len(pctab) :
            LET row == SeedRowOf(pctab[i].key)
                ent == pctab[i].ent
            IN  /\ Has(row, "enrollment_course_id") =>
                      Has(ent, "course_id") /\ ent["course_id"] = row["enrollment_course_id"]
                /\ (~Has(row, "enrollment_course_id") /\ Has(row, "certificate_course_id")) =>
                      Has(ent, "course_id") /\ ent["course_id"] = row["certificate_course_id"]
                /\ (~Has(row, "enrollment_course_id") /\ ~Has(row, "certificate_course_id")) =>
                      ~Has(ent, "course_id")
                /\ Has(ent, "gender") <=> Has(row, "profile_gender")
                /\ Has(ent, "gender") => ent["gender"] = row["profile_gender"]

C11_Witness ==
    /\ JustDone("compute_first_phase")
    /\ \E i \in 1..Len(pctab) :
          /\ ~Has(SeedRowOf(pctab[i].key), "enrollment_course_id")
          /\ Has(SeedRowOf(pctab[i].key), "certificate_course_id")
          /\ SeedRowOf(pctab[i].key)["certificate_course_id"] = PyUnicode("X")
          /\ pctab[i].ent["course_id"] = PyUnicode("X")
    /\ \E i \in 1..Len(pctab) :
          /\ Has(SeedRowOf(pctab[i].key), "enrollment_course_id")
          /\ Has(SeedRowOf(pctab[i].key), "certificate_course_id")
          /\ SeedRowOf(pctab[i].key)["certificate_course_id"] = PyUnicode("Y")
          /\ pctab[i].ent["course_id"] = PyUnicode("X")

\* the CSV loop of output_table has run, to its end or to an exception
CsvLoopActed ==
    \/ Done("output_table")
    \/ /\ err # ""
       /\ ~Finished
       /\ Method = "output_table"
       /\ Body[Method][pc.s] = "write_csv"

Undeclared(ent) == DOMAIN ent \ DOMAIN the_dict_schema

\* C12: a record field the schema does not declare is in the record's
\* structured line with the value it had, is no column of the flattened file,
\* whose header is the schema's field names, and the record's flattened row
\* is written all the same.
C12_UndeclaredFieldPassesThrough ==
    CsvLoopActed =>
        /\ files[ofn][1] = fieldnames
        /\ Len(files[ofnj]) = Len(pctab)
        /\ Len(files[ofn]) = 1 + Len(pctab)
        /\ \A i \in 1..Len(pctab) :
              /\ files[ofn][i + 1] = csv_row(pctab[i].ent)
              /\ \A f \in Undeclared(entry[i].ent) :
                    /\ Has(files[ofnj][i], f)
                    /\ files[ofnj][i][f] = json_value(entry[i].ent[f])

\* the fields compute_second_phase may write
Phase2Written ==
    {"viewed", "nchapters", "explored", "nforum_posts", "nforum_votes",
     "nforum_endorsed", "nforum_threads", "nforum_comments", "nforum_pinned"}

\* the line of the published file a reloaded record comes from
PublishedLineOf(key) ==
    CHOOSE l \in 1..Len(files[ofnj]) :
        /\ files[ofnj][l]["username"].s = key
        /\ \A j \in (l + 1)..Len(files[ofnj]) : files[ofnj][j]["username"].s # key

\* C13: on the redo-second-phase path the methods start in the order
\* reload_table, compute_second_phase, output_table, upload_to_bigquery, each
\* after the one before it returned, and no other phase runs; reload_table
\* fills the record store with one record per username of the published
\* file; after compute_second_phase every field the phase does not write has
\* the value the published line gave it.
C13_RedoSecondPhase ==
    [](opts.mode = "redo2" =>
          /\ IsPrefix(calls, <<"reload_table", "compute_second_phase", "output_table",
                               "upload_to_bigquery">>)
          /\ IsPrefix(completed, calls)
          /\ Len(calls) <= Len(completed) + 1
          /\ (Finished => Len(completed) = 4 /\ err = "")
          /\ JustDone("reload_table") =>
                /\ KeySet(pctab) = {files[ofnj][l]["username"].s : l \in 1..Len(files[ofnj])}
                /\ Len(pctab) = Cardinality(KeySet(pctab))
          /\ (JustDone("reload_table") \/ JustDone("compute_second_phase")) =>
                \A i \in 1..Len(pctab) :
                    LET line == files[ofnj][PublishedLineOf(pctab[i].key)]
                    IN  \A f \in DOMAIN line \ Phase2Written :
                           /\ Has(pctab[i].ent, f)
                           /\ pctab[i].ent[f].s = line[f].s)

C13_Witness ==
    /\ opts.mode = "redo2"
    /\ JustDone("compute_second_phase")
    /\ \E i \in 1..Len(pctab) :
          /\ pctab[i].key = "alice"
          /\ Has(pctab[i].ent, "ip") /\ pctab[i].ent["ip"].s = "18.0.0.1"
          /\ Has(pctab[i].ent, "nevents") /\ pctab[i].ent["nevents"].s = "9"
          /\ pctab[i].ent["city"].s = "Cambridge"
          /\ Has(pctab[i].ent, "nforum_posts")

\* the method is running, at step s of its body or beyond
Reached(method, s) ==
    \/ Done(method)
    \/ ~Finished /\ Method = method /\ (pc.s > s \/ (pc.s = s /\ err # ""))

\* C14: the publish steps are ordered: when a flattened row is written every
\* record has been schema-coerced and the structured artifact holds one line
\* per record; the table load happens after both artifacts were copied to
\* object storage, structured first; the provenance note is added after the
\* table load, at the end of the notes already there.
C14_PublishOrder ==
    /\ [](Reached("output_table", 3) =>
             /\ Len(files[ofnj]) = Len(pctab)
             /\ \A i \in 1..Len(pctab) : pctab[i].ent = check_schema(pctab[i].ent))
    /\ [](Reached("upload_to_bigquery", 3) => gs = <<ofnj, ofn>>)
    /\ [][table' # table => gs = <<ofnj, ofn>> /\ Done("output_table")]_vars
    /\ [][description' # description =>
             /\ Len(description') = Len(description) + 1
             /\ IsPrefix(description, description')
             /\ Method = "upload_to_bigquery" /\ pc.s = 4
             /\ table = <<files[ofnj]>>]_vars

C14_Witness ==
    /\ run > 1
    /\ Finished /\ err = ""
    /\ Len(description) = 2
    /\ gs = <<ofnj, ofn>>
    /\ table = <<files[ofnj]>>
    /\ Len(files[ofnj]) = 2
    /\ Len(files[ofn]) = 3

\* C15: a failure while writing a flattened row ends output_table with the
\* error; no row is skipped: when output_table returns, the flattened file has
\* its header and one row per record and the structured file one line per
\* record, and when it fails upload_to_bigquery is not called and nothing is
\* copied to object storage.
C15_CsvFailureSurfaces ==
    /\ Done("output_table") =>
          /\ Len(files[ofn]) = 1 + Len(pctab)
          /\ Len(files[ofnj]) = Len(pctab)
          /\ \A i \in 1..Len(pctab) : csv_accepts(pctab[i].ent)
    /\ (Reached("output_table", 3) /\ \E i \in 1..Len(pctab) : ~csv_accepts(pctab[i].ent)) =>
          /\ err = "ValueError"
          /\ "upload_to_bigquery" \notin Range(calls)
          /\ gs = <<>>

C15_Witness ==
    /\ err = "ValueError"
    /\ Method = "output_table"
    /\ Len(pctab) = 2
    /\ Len(files[ofnj]) = 2
    /\ Len(files[ofn]) < 3
    /\ gs = <<>>

\* C16: in the person_course command the courses are processed in list
\* order; an error raised while one is processed is printed and raised again
\* out of the command, and no course after the failing one is processed.
C16_PersonCourseAborts ==
    /\ [](args.command = "person_course" =>
             /\ Len(processed) <= Len(get_course_ids)
             /\ \A n \in 1..Len(processed) : processed[n].course = get_course_ids[n]
             /\ (cmd.called /\ err # "") => cmd.i = Len(processed)
             /\ outcome = "raised" <=> printed # <<>>
             /\ outcome = "raised" =>
                   /\ printed = <<[course |-> get_course_ids[cmd.i],
                                   step |-> "person_course", err |-> err]>>
                   /\ cmd.i = Len(processed)
             /\ outcome = "returned" => Len(processed) = Len(get_course_ids))
    /\ [][(args.command = "person_course" /\ cmd.called /\ err # "") =>
             /\ outcome = "" => outcome' = "raised"
             /\ processed' = processed
             /\ UNCHANGED pipeline]_vars

C16_Witness ==
    /\ args.command = "person_course"
    /\ Len(get_course_ids) = 2
    /\ outcome = "raised"
    /\ processed = <<[course |-> get_course_ids[1], step |-> "person_course"]>>
    /\ Len(printed) = 1
    /\ printed[1].err = "RemoteQueryError"

\* C17: in make_uic, sql2bq and setup_sql an error raised while one course is
\* processed is printed and the loop goes on: no error ends the command, and
\* when the command is over every course of the list has been processed.
C17_BatchGoesOn ==
    (args.command \in {"make_uic", "sql2bq", "setup_sql"} /\ outcome # "") =>
        /\ outcome = "returned"
        /\ \A n \in 1..Len(get_course_ids) :
              [course |-> get_course_ids[n],
               step |-> setup_sql_steps(args.command)[1]] \in Range(processed)

\* C20: the person_course command without --start_date and --end_date runs
\* the pipeline with start 2012-09-05 and end 2013-09-21; an option replaces
\* the bound it names and no other.
C20_DefaultDates ==
    (args.command = "person_course" /\ cmd.called) =>
        /\ opts.start = (IF args.start_date = <<>> THEN <<2012, 9, 5>>
                         ELSE args.start_date[1])
        /\ opts.end = (IF args.end_date = <<>> THEN <<2013, 9, 21>>
                       ELSE args.end_date[1])

\* the first loop of compute_first_phase has run
FirstLoopActed == opts.mode = "make_all" /\ calls # <<>>

KeylessRow == \E i \in 1..Len(seed) : ~Has(seed[i], "username")

\* C18: loading a seed file in which some row has no username fails: the load
\* raises, naming the row, and no record store is built from the file.
C18_KeylessRowFailsLoad ==
    (FirstLoopActed /\ KeylessRow) =>
        /\ err = "MissingKeyError"
        /\ ~Done("compute_first_phase")
        /\ pctab = <<>>

MergePhases == {"compute_second_phase", "compute_third_phase", "compute_fourth_phase"}

\* a merge phase is past its first step, or has just returned
InOrAfterPhase ==
    \/ ~Finished /\ Method \in MergePhases /\ pc.s > 1
    \/ \E phase \in MergePhases : JustDone(phase)

\* C19: Phases 2, 3 and 4 add and remove no record: during and after each of
\* them the record store has the keys it had at phase entry, in the same
\* order; there is one record per username; aggregate rows that match no
\* record leave the store as it is.
C19_KeySetPreserved ==
    InOrAfterPhase =>
        /\ Keys(pctab) = Keys(entry)
        /\ Len(pctab) = Cardinality(KeySet(pctab))
        /\ \A i \in 1..Len(pctab) :
              Has(pctab[i].ent, "username") /\ pctab[i].ent["username"].s = pctab[i].key

C19_Witness ==
    /\ JustDone("compute_fourth_phase")
    /\ KeySet(pctab) = {"alice", "bob"}
    /\ Has(agg["pc_last_event"], "carol")
    /\ Has(agg["pc_nchapters"], "3")
    /\ ~Has(agg["pc_geoip"], "bob")

\* the place of a date among the days of the model
DayIndex(d) == CHOOSE i \in 1..Len(Days) : Days[i] = d

\* the days from start_date to end_date, both included
DaysInRange == {i \in 1..Len(Days) : DayIndex(opts.start) <= i /\ i <= DayIndex(opts.end)}

\* the check `method` has been called on tables `tables` with prefix `tprefix`:
\* it returned exactly when no day of the range lacks its table, and
\* otherwise raised with the table of the earliest such day in its message
EnsureOutcome(method, dsuffix, tprefix) ==
    LET tname(i) == tprefix \o "_" \o Ymd(Days[i])
        lacking == {i \in DaysInRange : tname(i) \notin daily[dsuffix]}
    IN  calls = <<method>> =>
           /\ completed = <<method>> <=> lacking = {}
           /\ err = "" <=> lacking = {}
           /\ lacking # {} =>
                 LET first == CHOOSE i \in lacking : \A j \in lacking : i <= j
                 IN  err = "Oops, missing needed table " \o tname(first)
                             \o " from database dataset_" \o dsuffix

\* C21: ensure_all_daily_tables_loaded returns normally exactly when every
\* date from start_date to end_date, both included, has its table
\* <prefix>_<YYYYMMDD> in the dataset of the suffix; otherwise it raises and
\* the message names the table of the earliest missing date.
C21_EnsureAllDailyTables ==
    /\ EnsureOutcome("ensure_all_daily_tracking_logs_loaded", "logs", "tracklog")
    /\ EnsureOutcome("ensure_all_pc_day_tables_loaded", "pcday", "pcday")

C21_Witness ==
    /\ calls = <<"ensure_all_daily_tracking_logs_loaded">>
    /\ opts.start = Days[1] /\ opts.end = Days[3]
    /\ daily["logs"] = {"tracklog_20131230", "tracklog_20131231"}
    /\ err = "Oops, missing needed table tracklog_20140101 from database dataset_logs"

\* the row of an aggregate for a record, looked up by username; <<>> if none
RowOf(name, ent) ==
    IF Has(agg[name], ent["username"].s) THEN agg[name][ent["username"].s] ELSE EmptyDict

\* the record's last_event in pc_last_event is an epoch time that converts
Converts(ent) ==
    /\ Has(RowOf("pc_last_event", ent), "last_event")
    /\ RowOf("pc_last_event", ent)["last_event"].s = "1380000000.0"

\* the record's last_event in pc_last_event is not empty and does not convert
FailsToConvert(ent) ==
    /\ Has(RowOf("pc_last_event", ent), "last_event")
    /\ RowOf("pc_last_event", ent)["last_event"].s \notin {"", "1380000000.0"}

\* C22: a last_event that cannot be converted to a calendar string does not
\* end Phase 3: the phase returns, the record's last_event is the
\* unconverted value, its modal ip and day totals are merged, and the records
\* after it are processed, with their last_event converted where it converts.
C22_LastEventFailureNotFatal ==
    /\ Reached("compute_third_phase", 4) => Done("compute_third_phase")
    /\ JustDone("compute_third_phase") =>
          \A i \in 1..Len(pctab) :
              LET ent == pctab[i].ent
              IN  /\ FailsToConvert(ent) =>
                        /\ Has(ent, "last_event")
                        /\ ent["last_event"] = RowOf("pc_last_event", ent)["last_event"]
                  /\ Converts(ent) =>
                        /\ Has(ent, "last_event")
                        /\ ent["last_event"] = PyStr("2013-09-24 05:20:00")
                  /\ Has(RowOf("pc_modal_ip", ent), "modal_ip") =>
                        /\ Has(ent, "ip")
                        /\ ent["ip"] = RowOf("pc_modal_ip", ent)["modal_ip"]
                  /\ Has(RowOf("pc_day_totals", ent), "nevents") =>
                        /\ Has(ent, "nevents")
                        /\ ent["nevents"] = RowOf("pc_day_totals", ent)["nevents"]

C22_Witness ==
    /\ JustDone("compute_third_phase")
    /\ Len(pctab) = 2
    /\ FailsToConvert(pctab[1].ent)
    /\ pctab[1].ent["last_event"] = PyUnicode("garbage")
    /\ pctab[1].ent["ip"] = PyUnicode("10.0.0.1")
    /\ Converts(pctab[2].ent)
    /\ pctab[2].ent["last_event"] = PyStr("2013-09-24 05:20:00")
    /\ Has(pctab[2].ent, "nevents")

\* C23: after Phase 3 a record whose username has a pc_day_totals row has
\* nforum_events equal to the row's nforum and nplay_video equal to the row's
\* nvideo, and every record's nforum_posts is as it was when Phase 3 began.
C23_DayTotalsRenames ==
    JustDone("compute_third_phase") =>
        \A i \in 1..Len(pctab) :
            LET ent == pctab[i].ent
                row == RowOf("pc_day_totals", ent)
            IN  /\ Has(row, "nforum") =>
                      Has(ent, "nforum_events") /\ ent["nforum_events"] = row["nforum"]
                /\ Has(row, "nvideo") =>
                      Has(ent, "nplay_video") /\ ent["nplay_video"] = row["nvideo"]
                /\ Has(ent, "nforum_posts") <=> Has(entry[i].ent, "nforum_posts")
                /\ Has(ent, "nforum_posts") =>
                      ent["nforum_posts"] = entry[i].ent["nforum_posts"]

C23_Witness ==
    /\ JustDone("compute_third_phase")
    /\ opts.mode = "make_all"
    /\ \E i \in 1..Len(pctab) :
          /\ pctab[i].key = "alice"
          /\ Has(pctab[i].ent, "nforum_posts")
          /\ pctab[i].ent["nforum_posts"] = PyUnicode("3")
          /\ Has(pctab[i].ent, "nforum_events")
          /\ pctab[i].ent["nforum_events"] = PyUnicode("7")
          /\ Has(pctab[i].ent, "nplay_video")
          /\ pctab[i].ent["nplay_video"] = PyUnicode("5")

\* C24: on make_all, redo_second_phase and make_pc3 alike, the course chapter
\* count has been computed when upload_to_bigquery composes the provenance
\* note, so the upload does not fail after the table load for lack of it.
C24_ChapterCountBeforeNote ==
    Reached("upload_to_bigquery", 4) =>
        /\ nchapters # <<>>
        /\ err # "AttributeError"

\* a merge phase is running and its record loop has not run
BeforeLoop ==
    /\ ~Finished
    /\ Method \in MergePhases
    /\ pc.s > 1 \/ err # ""
    /\ pc.s < Len(Body[Method]) \/ err = ""

\* C25: in Phases 2, 3 and 4 the aggregates, and in Phase 2 the chapter
\* count, are obtained before the record loop: until the loop runs, and when
\* obtaining one of them fails, every record is as it was at phase entry.
C25_LoadsBeforeRecords ==
    BeforeLoop => pctab = entry

C25_Witness ==
    /\ err = "RemoteQueryError"
    /\ Method = "compute_third_phase"
    /\ pc.s = 3
    /\ Len(pctab) = 2
    /\ Has(pctab[1].ent, "viewed")
    /\ pctab = entry

\* the number of times `step` was executed for `course`
Executions(course, step) ==
    Cardinality({n \in 1..Len(processed) :
                    processed[n] = [course |-> course, step |-> step]})

\* C26: setup_sql over a list of courses, no step failing, executes each of
\* make_uic, sql2bq and load_forum once for every course, and for a course in
\* the order make_uic, sql2bq, load_forum.
C26_SetupSqlOncePerCourse ==
    (args.command = "setup_sql" /\ outcome = "returned" /\ printed = <<>>) =>
        /\ \A n \in 1..Len(get_course_ids) :
              \A step \in {"make_uic", "sql2bq", "load_forum"} :
                 Executions(get_course_ids[n], step) = 1
        /\ Len(processed) = 3 * Len(get_course_ids)
        /\ \A a, b \in 1..Len(processed) :
              (processed[a].course = processed[b].course /\ a < b) =>
                  <<processed[a].step, processed[b].step>> \in
                      {<<"make_uic", "sql2bq">>, <<"make_uic", "load_forum">>,
                       <<"sql2bq", "load_forum">>}

\* C27: reload_table restores one record per username of the published file,
\* in the order of the file's lines, and redo_second_phase writes the new
\* structured file with these usernames in that order.
C27_ReloadKeepsLineOrder ==
    (opts.mode = "redo2" /\ JustDone("reload_table")) =>
        Keys(pctab) = [l \in 1..Len(files[ofnj]) |-> files[ofnj][l]["username"].s]

====
